---- MODULE Spec2Model ----
(***************************************************************************)
(* Model of the scanned-image cleaner's processing pipeline                *)
(* (utils/imageProcessing.ts: processImage and its helpers) and of the     *)
(* call App.tsx makes to it, followed by a model of the App component's    *)
(* state (parameters, manual whitelist mask, debounce timer, invocations   *)
(* of processImage in flight) and of the parameter controls.               *)
(*                                                                         *)
(* A raster is a function from pixel index (y * width + x, 0-based, as in  *)
(* the source) to an RGBA record.  Saturation and value are kept as exact  *)
(* reduced fractions <<numerator, denominator>>; every comparison the code *)
(* makes against a threshold is made on those fractions.  The pixel values *)
(* and thresholds used here never put a saturation, value or mean exactly  *)
(* on a threshold, so the source's floating-point rounding cannot change   *)
(* the outcome of a comparison.  Hue is computed by the source but never   *)
(* read, so it is not carried.                                             *)
(***************************************************************************)
EXTENDS Integers, Sequences, FiniteSets, TLC

VARIABLES
    pc,                 \* position inside processImage
    imageData,          \* input raster: [width, height, data]
    params,             \* the object App passes as params (with manualWhitelistMask)
    result,             \* cleaned raster buffer
    visualization,      \* visualization raster buffer
    stats,              \* statistics record
    hsvValues,          \* precomputed HSV per pixel
    blackPixelsMask,
    initialMask,
    finalMask,
    openedMask,
    painted,            \* history: which colour rules wrote each visualization pixel
    call,               \* arguments of a direct call of one helper function
    ret,                \* what that call returned
    originalImage,      \* App: the uploaded image (0 when null)
    originalImageData,  \* App: its pixel data (0 when null)
    parameters,         \* App: the parameters state
    manualWhitelistMask, \* App: the mask state (<<>> when undefined)
    isProcessing,       \* App: the processing flag
    debounceTimeout,    \* App: the pending debounce timer (<<>> when none)
    inFlight,           \* invocations of processImageWithParams not yet settled
    displayed,          \* App: processedImage, visualizationImage, processingStats
    isDrawing,          \* ImageDisplay: a brush stroke is in progress
    loading,            \* images whose img.onload has not fired yet
    invocations,        \* number of invocations of processImageWithParams so far
    events,             \* number of user events so far
    imageDimensions,    \* ImageDisplay: size of the loaded image (0 x 0 before)
    displayMask,        \* ImageDisplay: its manualWhitelistMask state
    history,            \* ImageDisplay: the saved masks
    historyIndex,       \* ImageDisplay: the cursor into history (0-based)
    hasUnsavedChanges,  \* ImageDisplay
    isWhitelistBrushActive, \* ImageDisplay
    whitelistBrushSize, \* ImageDisplay: brush diameter in image pixels
    lastDrawPosition,   \* ImageDisplay: lastDrawPositionRef.current (<<>> when null)
    reports,            \* history: number of calls of onManualWhitelist so far
    lastOp              \* history: the last handler run and the state it found

pipelineVars == <<pc, imageData, params, result, visualization, stats, hsvValues,
                  blackPixelsMask, initialMask, finalMask, openedMask, painted>>

callVars == <<call, ret>>

appVars == <<originalImage, originalImageData, parameters, manualWhitelistMask,
             isProcessing, debounceTimeout, inFlight, displayed, isDrawing,
             loading, invocations, events>>

displayVars == <<imageDimensions, displayMask, history, historyIndex,
                 hasUnsavedChanges, isWhitelistBrushActive, whitelistBrushSize,
                 lastDrawPosition, reports, lastOp>>

vars == <<pipelineVars, callVars, appVars, displayVars>>

----------------------------------------------------------------------------
(* Bounds of the model *)

\* largest number of pixels of a raster in Spec
MaxPixels == 5
\* largest side of a raster in SpecAllCandidate
MaxSide == 5
\* largest number of cells of a mask in SpecMorph
MaxMaskCells == 12

----------------------------------------------------------------------------
(* Arithmetic helpers *)

Max(a, b) == IF a >= b THEN a ELSE b

Min(a, b) == IF a <= b THEN a ELSE b

RECURSIVE Gcd(_, _)
Gcd(a, b) == IF b = 0 THEN a ELSE Gcd(b, a % b)

\* a fraction <<n, d>> with n >= 0, d > 0, in lowest terms
Frac(n, d) == LET g == Gcd(n, d) IN <<n \div g, d \div g>>

FracAdd(p, q) == Frac(p[1] * q[2] + q[1] * p[2], p[2] * q[2])

\* p < t and p > t for a fraction p and an integer t
FracLess(p, t) == p[1] < t * p[2]

FracGreater(p, t) == p[1] > t * p[2]

\* Math.floor(kernelSize / 2)
HalfOf(kernelSize) == kernelSize \div 2

\* manualWhitelistMask: undefined
NoMask == <<>>

\* arr.length of a 0-based array
Length(arr) == Cardinality(DOMAIN arr)

PixelCount(img) == img.width * img.height

Pixels(img) == 0 .. (PixelCount(img) - 1)

----------------------------------------------------------------------------
(* Colours *)

Rgba(r, g, b, a) == [r |-> r, g |-> g, b |-> b, a |-> a]

White == Rgba(255, 255, 255, 255)
LightGrey == Rgba(230, 230, 230, 255)
Pale == Rgba(255, 230, 230, 255)
Black == Rgba(0, 0, 0, 255)
PureRed == Rgba(255, 0, 0, 255)
ClearGrey == Rgba(230, 230, 230, 0)

\* pixel values rasters are drawn from in Spec
Palette == {LightGrey, Black, PureRed, ClearGrey}

\* opaque pixel values that are bright and unsaturated under defaultParams
BrightPalette == {White, LightGrey, Pale}

----------------------------------------------------------------------------
(* Parameters *)

defaultParams ==
    [ brightnessThreshold           |-> 78,
      saturationThreshold           |-> 16,
      meanSaturationThreshold       |-> 16,
      blackPixelBrightnessThreshold |-> 25,
      blackPixelSaturationThreshold |-> 31,
      structuringElementSize        |-> 25,
      blurKernelSize                |-> 12,
      morphOpeningKernelSize        |-> 3 ]

\* parameter sets a user can reach with the sliders; the third has a
\* black-pixel brightness threshold above the brightness threshold
ParamSets ==
    { defaultParams,
      [defaultParams EXCEPT !.structuringElementSize = 3, !.blurKernelSize = 3],
      [defaultParams EXCEPT !.structuringElementSize = 3, !.blurKernelSize = 3,
                            !.blackPixelBrightnessThreshold = 95] }

\* paramsWithWhitelist = { ...parameters, manualWhitelistMask }
paramsWithWhitelist(q, mask) ==
    [ brightnessThreshold           |-> q.brightnessThreshold,
      saturationThreshold           |-> q.saturationThreshold,
      meanSaturationThreshold       |-> q.meanSaturationThreshold,
      blackPixelBrightnessThreshold |-> q.blackPixelBrightnessThreshold,
      blackPixelSaturationThreshold |-> q.blackPixelSaturationThreshold,
      structuringElementSize        |-> q.structuringElementSize,
      blurKernelSize                |-> q.blurKernelSize,
      morphOpeningKernelSize        |-> q.morphOpeningKernelSize,
      manualWhitelistMask           |-> mask ]

----------------------------------------------------------------------------
(* rgbToHsv: saturation and value in percent, as exact fractions *)

rgbToHsv(r, g, b) ==
    LET max == Max(r, Max(g, b))
        min == Min(r, Min(g, b))
        d   == max - min
    IN  [ s |-> IF max = 0 THEN <<0, 1>> ELSE Frac(100 * d, max),
          v |-> Frac(100 * max, 255) ]

----------------------------------------------------------------------------
(* Window scans shared by the local mean, the proximity test and morphology *)

\* for (k = Math.max(0, c - half); k < Math.min(limit, c + half + 1); k++)
WindowRange(c, half, limit) == Max(0, c - half) .. (Min(limit, c + half + 1) - 1)

\* the cells <<kx, ky>> of the clipped window, in the order of the nested loops
WindowCells(width, height, x, y, half) ==
    LET ys   == WindowRange(y, half, height)
        xs   == WindowRange(x, half, width)
        cols == Cardinality(xs)
        n    == Cardinality(ys) * cols
        x0   == Max(0, x - half)
        y0   == Max(0, y - half)
    IN  [k \in 1 .. n |-> << x0 + ((k - 1) % cols), y0 + ((k - 1) \div cols) >>]

----------------------------------------------------------------------------
(* calculateLocalMeanSaturation *)

\* fault variant: the transparency test is lost
IsTransparentNever(a) == FALSE

\* "Skip transparent pixels": if (a === 0) continue;
IsTransparent(a) == a = 0

\* fault variant: a transparent pixel is left out of the count as well
MeanSatStepOpaqueOnly(data, hsv, width, cell, acc) ==
    LET pixelIndex == cell[2] * width + cell[1]
        a == data[pixelIndex].a
    IN  [ total |-> IF a > 0 THEN FracAdd(acc.total, hsv[pixelIndex].s)
                             ELSE acc.total,
          count |-> IF a > 0 THEN acc.count + 1 ELSE acc.count ]

\* one iteration of the inner loop: acc = [total, count]
MeanSatStep(data, hsv, width, cell, acc) ==
    LET pixelIndex == cell[2] * width + cell[1]
        a == data[pixelIndex].a
    IN  [ total |-> IF a > 0 THEN FracAdd(acc.total, hsv[pixelIndex].s)
                             ELSE acc.total,
          count |-> acc.count + 1 ]

\* the loops carry their position k together with the accumulator
RECURSIVE MeanSatLoop(_, _, _, _, _)
MeanSatLoop(cells, data, hsv, width, st) ==
    IF st.k > Len(cells) THEN st.acc
    ELSE MeanSatLoop(cells, data, hsv, width,
                     [ k   |-> st.k + 1,
                       acc |-> MeanSatStep(data, hsv, width, cells[st.k], st.acc) ])

\* the mean as a fraction: count > 0 ? totalSaturation / count : 0
calculateLocalMeanSaturation(data, hsv, width, height, x, y, kernelSize) ==
    LET halfKernel == HalfOf(kernelSize)
        cells == WindowCells(width, height, x, y, halfKernel)
        acc == MeanSatLoop(cells, data, hsv, width,
                           [ k |-> 1, acc |-> [total |-> <<0, 1>>, count |-> 0] ])
    IN  IF acc.count > 0 THEN Frac(acc.total[1], acc.total[2] * acc.count)
        ELSE <<0, 1>>

----------------------------------------------------------------------------
(* isNearBlackPixelOptimized *)

\* fault variant: the boundary of the ellipse is excluded (>= for >)
OutsideEllipseStrict(dx, dy, radiusSquared) == dx * dx + dy * dy >= radiusSquared

\* fault variant: the centre cell itself is skipped as well
OutsideEllipseOrCentre(dx, dy, radiusSquared) ==
    \/ dx * dx + dy * dy > radiusSquared
    \/ (dx = 0 /\ dy = 0)

\* "Skip if outside the ellipse": if (distanceSquared > radiusSquared) continue;
OutsideEllipse(dx, dy, radiusSquared) == dx * dx + dy * dy > radiusSquared

RECURSIVE NearBlackScan(_, _, _, _, _, _, _)
NearBlackScan(cells, k, mask, width, x, y, radiusSquared) ==
    IF k > Len(cells) THEN FALSE
    ELSE LET kx == cells[k][1]
             ky == cells[k][2]
         IN  IF OutsideEllipse(kx - x, ky - y, radiusSquared)
                THEN NearBlackScan(cells, k + 1, mask, width, x, y, radiusSquared)
             ELSE IF mask[ky * width + kx] THEN TRUE
             ELSE NearBlackScan(cells, k + 1, mask, width, x, y, radiusSquared)

isNearBlackPixelOptimized(mask, width, height, x, y, structureSize) ==
    LET halfSize == HalfOf(structureSize)
        radiusSquared == halfSize * halfSize
    IN  NearBlackScan(WindowCells(width, height, x, y, halfSize), 1,
                      mask, width, x, y, radiusSquared)

----------------------------------------------------------------------------
(* Binary morphology *)

\* fault variant: both loops stop one cell early (k < c + halfKernel)
KernelWindowOpenEnd(width, height, x, y, halfKernel) ==
    { ky * width + kx :
        kx \in Max(0, x - halfKernel) .. (Min(width, x + halfKernel) - 1),
        ky \in Max(0, y - halfKernel) .. (Min(height, y + halfKernel) - 1) }

\* the mask cells the two inner loops of erodeMask and dilateMask visit
KernelWindow(width, height, x, y, halfKernel) ==
    { ky * width + kx : kx \in WindowRange(x, halfKernel, width),
                        ky \in WindowRange(y, halfKernel, height) }

\* fault variant: window positions outside the raster count as false
erodeMaskZeroPadded(mask, width, height, kernelSize) ==
    LET halfKernel == HalfOf(kernelSize)
    IN  [ i \in DOMAIN mask |->
            \A kx \in ((i % width) - halfKernel) .. ((i % width) + halfKernel),
               ky \in ((i \div width) - halfKernel) .. ((i \div width) + halfKernel) :
                /\ kx \in 0 .. (width - 1)
                /\ ky \in 0 .. (height - 1)
                /\ mask[ky * width + kx] ]

erodeMask(mask, width, height, kernelSize) ==
    LET halfKernel == HalfOf(kernelSize)
    IN  [ i \in DOMAIN mask |->
            \A c \in KernelWindow(width, height, i % width, i \div width, halfKernel) :
                mask[c] ]

\* fault variant: the dilation window is one cell wider on every side
dilateMaskWide(mask, width, height, kernelSize) ==
    LET halfKernel == HalfOf(kernelSize) + 1
    IN  [ i \in DOMAIN mask |->
            \E c \in KernelWindow(width, height, i % width, i \div width, halfKernel) :
                mask[c] ]

\* fault variant: the loops stop one cell early (k < c + halfKernel)
dilateMaskOneSided(mask, width, height, kernelSize) ==
    LET halfKernel == HalfOf(kernelSize)
        x(i) == i % width
        y(i) == i \div width
    IN  [ i \in DOMAIN mask |->
            \E kx \in Max(0, x(i) - halfKernel) .. (Min(width, x(i) + halfKernel) - 1),
               ky \in Max(0, y(i) - halfKernel) .. (Min(height, y(i) + halfKernel) - 1) :
                mask[ky * width + kx] ]

dilateMask(mask, width, height, kernelSize) ==
    LET halfKernel == HalfOf(kernelSize)
    IN  [ i \in DOMAIN mask |->
            \E c \in KernelWindow(width, height, i % width, i \div width, halfKernel) :
                mask[c] ]

morphologicalOpenMask(mask, width, height, kernelSize) ==
    dilateMask(erodeMask(mask, width, height, kernelSize), width, height, kernelSize)

----------------------------------------------------------------------------
(* processImage, stage by stage.  Each loop over the pixels is a fold whose *)
(* state is the loop index i and an accumulator acc holding the buffers and *)
(* counters the loop body writes.                                           *)

\* writing R, G, B of one visualization or result pixel (alpha untouched)
SetRgb(buf, i, r, g, b) == [buf EXCEPT ![i].r = r, ![i].g = g, ![i].b = b]

ZeroStats(p) ==
    [ brightPixels        |-> 0,
      lowSaturationPixels |-> 0,
      candidateArtifacts  |-> 0,
      lowSaturationAreas  |-> 0,
      nearBlackPixels     |-> 0,
      replacedPixels      |-> 0,
      blackPixels         |-> 0,
      thresholds |->
        [ brightnessThreshold           |-> p.brightnessThreshold,
          saturationThreshold           |-> p.saturationThreshold,
          meanSaturationThreshold       |-> p.meanSaturationThreshold,
          blackPixelBrightnessThreshold |-> p.blackPixelBrightnessThreshold,
          blackPixelSaturationThreshold |-> p.blackPixelSaturationThreshold,
          structuringElementSize        |-> p.structuringElementSize,
          blurKernelSize                |-> p.blurKernelSize,
          morphOpeningKernelSize        |-> p.morphOpeningKernelSize ] ]

\* new Array(width * height).fill(false)
FalseMask(n) == [i \in 0 .. (n - 1) |-> FALSE]

\* v < blackPixelBrightnessThreshold && s < blackPixelSaturationThreshold
IsBlack(hsv, p) ==
    /\ FracLess(hsv.v, p.blackPixelBrightnessThreshold)
    /\ FracLess(hsv.s, p.blackPixelSaturationThreshold)

\* fault variant: the counter is incremented before the transparency test
BlackStepCountsTransparent(i, img, hsv, p, acc) ==
    LET isBlack == IsBlack(hsv[i], p)
        counted == IF isBlack THEN [acc EXCEPT !.stats.blackPixels = @ + 1] ELSE acc
    IN  IF IsTransparent(img.data[i].a) THEN counted
        ELSE IF isBlack
             THEN [ mask    |-> [acc.mask EXCEPT ![i] = TRUE],
                    vis     |-> SetRgb(acc.vis, i, 255, 0, 0),
                    stats   |-> counted.stats,
                    painted |-> [acc.painted EXCEPT ![i] = @ \cup {"red"}] ]
             ELSE acc

\* body of the black-pixel loop; acc = [mask, vis, stats, painted]
BlackStep(i, img, hsv, p, acc) ==
    IF IsTransparent(img.data[i].a) THEN acc
    ELSE LET isBlack == IsBlack(hsv[i], p)
         IN  IF isBlack
             THEN [ mask    |-> [acc.mask EXCEPT ![i] = TRUE],
                    vis     |-> SetRgb(acc.vis, i, 255, 0, 0),
                    stats   |-> [acc.stats EXCEPT !.blackPixels = @ + 1],
                    painted |-> [acc.painted EXCEPT ![i] = @ \cup {"red"}] ]
             ELSE [acc EXCEPT !.mask[i] = FALSE]

RECURSIVE BlackLoop(_, _, _, _)
BlackLoop(img, hsv, p, st) ==
    IF st.i >= Length(hsv) THEN st.acc
    ELSE BlackLoop(img, hsv, p,
                   [ i   |-> st.i + 1,
                     acc |-> BlackStep(st.i, img, hsv, p, st.acc) ])

\* v > brightnessThreshold
IsBright(hsv, p) == FracGreater(hsv.v, p.brightnessThreshold)

\* s < saturationThreshold
IsLowSaturation(hsv, p) == FracLess(hsv.s, p.saturationThreshold)

\* fault variant: every candidate is marked, the local mean is not tested
CandidateStepNoMeanTest(i, img, hsv, p, acc) ==
    IF IsTransparent(img.data[i].a) THEN acc
    ELSE LET isBright == IsBright(hsv[i], p)
             isLowSaturation == IsLowSaturation(hsv[i], p)
             s1 == IF isBright
                     THEN [acc.stats EXCEPT !.brightPixels = @ + 1]
                     ELSE acc.stats
             s2 == IF isLowSaturation
                     THEN [s1 EXCEPT !.lowSaturationPixels = @ + 1]
                     ELSE s1
         IN  IF isBright /\ isLowSaturation
             THEN [ mask  |-> [acc.mask EXCEPT ![i] = TRUE],
                    stats |-> [s2 EXCEPT !.candidateArtifacts = @ + 1,
                                         !.lowSaturationAreas = @ + 1] ]
             ELSE [acc EXCEPT !.stats = s2]

\* body of the pass-1 loop; acc = [mask, stats]
CandidateStep(i, img, hsv, p, acc) ==
    IF IsTransparent(img.data[i].a) THEN acc
    ELSE LET isBright == IsBright(hsv[i], p)
             isLowSaturation == IsLowSaturation(hsv[i], p)
             s1 == IF isBright
                     THEN [acc.stats EXCEPT !.brightPixels = @ + 1]
                     ELSE acc.stats
             s2 == IF isLowSaturation
                     THEN [s1 EXCEPT !.lowSaturationPixels = @ + 1]
                     ELSE s1
         IN  IF isBright /\ isLowSaturation
             THEN LET s3 == [s2 EXCEPT !.candidateArtifacts = @ + 1]
                      meanSat == calculateLocalMeanSaturation(
                                     img.data, hsv, img.width, img.height,
                                     i % img.width, i \div img.width,
                                     p.blurKernelSize)
                  IN  IF FracLess(meanSat, p.meanSaturationThreshold)
                      THEN [ mask  |-> [acc.mask EXCEPT ![i] = TRUE],
                             stats |-> [s3 EXCEPT !.lowSaturationAreas = @ + 1] ]
                      ELSE [acc EXCEPT !.stats = s3]
             ELSE [acc EXCEPT !.stats = s2]

RECURSIVE CandidateLoop(_, _, _, _)
CandidateLoop(img, hsv, p, st) ==
    IF st.i >= PixelCount(img) THEN st.acc
    ELSE CandidateLoop(img, hsv, p,
                       [ i   |-> st.i + 1,
                         acc |-> CandidateStep(st.i, img, hsv, p, st.acc) ])

\* fault variant: a near-black pixel is counted as a replacement as well
ProximityStepCountsBoth(i, img, black, initial, p, acc) ==
    IF ~initial[i] THEN acc
    ELSE IF isNearBlackPixelOptimized(black, img.width, img.height,
                                      i % img.width, i \div img.width,
                                      p.structuringElementSize)
         THEN [ mask    |-> acc.mask,
                vis     |-> SetRgb(acc.vis, i, 0, 0, 255),
                stats   |-> [acc.stats EXCEPT !.nearBlackPixels = @ + 1,
                                              !.replacedPixels = @ + 1],
                painted |-> [acc.painted EXCEPT ![i] = @ \cup {"blue"}] ]
         ELSE [ mask    |-> [acc.mask EXCEPT ![i] = TRUE],
                vis     |-> acc.vis,
                stats   |-> [acc.stats EXCEPT !.replacedPixels = @ + 1],
                painted |-> acc.painted ]

\* body of the pass-2 loop; acc = [mask, vis, stats, painted]
ProximityStep(i, img, black, initial, p, acc) ==
    IF ~initial[i] THEN acc
    ELSE IF isNearBlackPixelOptimized(black, img.width, img.height,
                                      i % img.width, i \div img.width,
                                      p.structuringElementSize)
         THEN [ mask    |-> acc.mask,
                vis     |-> SetRgb(acc.vis, i, 0, 0, 255),
                stats   |-> [acc.stats EXCEPT !.nearBlackPixels = @ + 1],
                painted |-> [acc.painted EXCEPT ![i] = @ \cup {"blue"}] ]
         ELSE [ mask    |-> [acc.mask EXCEPT ![i] = TRUE],
                vis     |-> acc.vis,
                stats   |-> [acc.stats EXCEPT !.replacedPixels = @ + 1],
                painted |-> acc.painted ]

RECURSIVE ProximityLoop(_, _, _, _, _)
ProximityLoop(img, black, initial, p, st) ==
    IF st.i >= PixelCount(img) THEN st.acc
    ELSE ProximityLoop(img, black, initial, p,
                       [ i   |-> st.i + 1,
                         acc |-> ProximityStep(st.i, img, black, initial, p, st.acc) ])

\* fault variant: R, G, B are cleared but alpha is left as it was
ApplyStepKeepsAlpha(i, opened, acc) ==
    IF opened[i]
    THEN [ res     |-> SetRgb(acc.res, i, 0, 0, 0),
           vis     |-> SetRgb(acc.vis, i, 0, 255, 0),
           painted |-> [acc.painted EXCEPT ![i] = @ \cup {"green"}] ]
    ELSE acc

\* fault variant: the visualization is not updated for erased pixels
ApplyStepNoGreen(i, opened, acc) ==
    IF opened[i]
    THEN [acc EXCEPT !.res[i] = Rgba(0, 0, 0, 0)]
    ELSE acc

\* body of the output loop; acc = [res, vis, painted]
ApplyStep(i, opened, acc) ==
    IF opened[i]
    THEN [ res     |-> [acc.res EXCEPT ![i] = Rgba(0, 0, 0, 0)],
           vis     |-> SetRgb(acc.vis, i, 0, 255, 0),
           painted |-> [acc.painted EXCEPT ![i] = @ \cup {"green"}] ]
    ELSE acc

RECURSIVE ApplyLoop(_, _)
ApplyLoop(opened, st) ==
    IF st.i >= Length(opened) THEN st.acc
    ELSE ApplyLoop(opened,
                   [ i   |-> st.i + 1,
                     acc |-> ApplyStep(st.i, opened, st.acc) ])

----------------------------------------------------------------------------
(* Inputs *)

\* width and height of the rasters with at most n pixels
Shapes(n) == { wh \in (1 .. n) \X (1 .. n) : wh[1] * wh[2] <= n }

Rasters(shapes, colours) ==
    UNION { { [width |-> wh[1], height |-> wh[2], data |-> d] :
                d \in [0 .. (wh[1] * wh[2] - 1) -> colours] } : wh \in shapes }

\* the masks App hands over: none yet, or one painted over the first pixel
ManualMasks(n) == { NoMask, [i \in 0 .. (n - 1) |-> i = 0] }

Unset == <<>>

\* no helper is called directly
NoCall ==
    /\ call = Unset
    /\ ret = Unset

\* no handler of the image display has run
NoOp ==
    [ op |-> "none", ok |-> FALSE, prev |-> "none", mask |-> << >>,
      index |-> -1, size |-> 0, from |-> << >>, to |-> << >> ]

\* the ImageDisplay component as constructed
DisplayIdle ==
    /\ imageDimensions = [width |-> 0, height |-> 0]
    /\ displayMask = << >>
    /\ history = << >>
    /\ historyIndex = -1
    /\ hasUnsavedChanges = FALSE
    /\ isWhitelistBrushActive = FALSE
    /\ whitelistBrushSize = 30
    /\ lastDrawPosition = << >>
    /\ reports = 0
    /\ lastOp = NoOp

\* the App component as constructed: no image, default parameters, no mask
AppIdle ==
    /\ DisplayIdle
    /\ originalImage = 0
    /\ originalImageData = 0
    /\ parameters = defaultParams
    /\ manualWhitelistMask = <<>>
    /\ isProcessing = FALSE
    /\ debounceTimeout = <<>>
    /\ inFlight = <<>>
    /\ displayed = <<>>
    /\ isDrawing = FALSE
    /\ loading = {}
    /\ invocations = 0
    /\ events = 0

\* nothing allocated by processImage
InitAppBuffers ==
    /\ result = Unset
    /\ visualization = Unset
    /\ stats = Unset
    /\ hsvValues = Unset
    /\ blackPixelsMask = Unset
    /\ initialMask = Unset
    /\ finalMask = Unset
    /\ openedMask = Unset
    /\ painted = Unset

InitBuffers ==
    /\ pc = "start"
    /\ result = Unset
    /\ visualization = Unset
    /\ stats = Unset
    /\ hsvValues = Unset
    /\ blackPixelsMask = Unset
    /\ initialMask = Unset
    /\ finalMask = Unset
    /\ openedMask = Unset
    /\ painted = Unset
    /\ NoCall
    /\ AppIdle

Init ==
    /\ imageData \in Rasters(Shapes(MaxPixels), Palette)
    /\ params \in { paramsWithWhitelist(q, m) :
                      q \in ParamSets, m \in ManualMasks(PixelCount(imageData)) }
    /\ InitBuffers

----------------------------------------------------------------------------
(* processImage *)

\* allocate the outputs, copy the source into both, precompute HSV
Start ==
    /\ pc = "start"
    /\ result' = imageData.data
    /\ visualization' = imageData.data
    /\ stats' = ZeroStats(params)
    /\ hsvValues' = [ i \in Pixels(imageData) |->
                        rgbToHsv(imageData.data[i].r, imageData.data[i].g,
                                 imageData.data[i].b) ]
    /\ painted' = [i \in Pixels(imageData) |-> {}]
    /\ pc' = "black"
    /\ UNCHANGED <<imageData, params, blackPixelsMask, initialMask, finalMask,
                   openedMask>>
    /\ UNCHANGED <<callVars, appVars, displayVars>>

FindBlackPixels ==
    /\ pc = "black"
    /\ LET acc == BlackLoop(imageData, hsvValues, params,
                 [ i   |-> 0,
                   acc |-> [ mask    |-> FalseMask(PixelCount(imageData)),
                             vis     |-> visualization,
                             stats   |-> stats,
                             painted |-> painted ] ])
       IN  /\ blackPixelsMask' = acc.mask
           /\ visualization' = acc.vis
           /\ stats' = acc.stats
           /\ painted' = acc.painted
    /\ pc' = "pass1"
    /\ UNCHANGED <<imageData, params, result, hsvValues, initialMask, finalMask,
                   openedMask>>
    /\ UNCHANGED <<callVars, appVars, displayVars>>

BuildInitialMask ==
    /\ pc = "pass1"
    /\ LET acc == CandidateLoop(imageData, hsvValues, params,
                 [ i   |-> 0,
                   acc |-> [ mask  |-> FalseMask(PixelCount(imageData)),
                             stats |-> stats ] ])
       IN  /\ initialMask' = acc.mask
           /\ stats' = acc.stats
    /\ pc' = "pass2"
    /\ UNCHANGED <<imageData, params, result, visualization, hsvValues,
                   blackPixelsMask, finalMask, openedMask, painted>>
    /\ UNCHANGED <<callVars, appVars, displayVars>>

\* fault variant: pass 2 builds the final mask in the array of the black mask
FilterNearBlackInPlace ==
    /\ pc = "pass2"
    /\ LET acc == ProximityLoop(imageData, blackPixelsMask, initialMask, params,
                 [ i   |-> 0,
                   acc |-> [ mask    |-> FalseMask(PixelCount(imageData)),
                             vis     |-> visualization,
                             stats   |-> stats,
                             painted |-> painted ] ])
       IN  /\ finalMask' = acc.mask
           /\ blackPixelsMask' = acc.mask
           /\ visualization' = acc.vis
           /\ stats' = acc.stats
           /\ painted' = acc.painted
    /\ pc' = "open"
    /\ UNCHANGED <<imageData, params, result, hsvValues, initialMask, openedMask>>
    /\ UNCHANGED <<callVars, appVars, displayVars>>

FilterNearBlack ==
    /\ pc = "pass2"
    /\ LET acc == ProximityLoop(imageData, blackPixelsMask, initialMask, params,
                 [ i   |-> 0,
                   acc |-> [ mask    |-> FalseMask(PixelCount(imageData)),
                             vis     |-> visualization,
                             stats   |-> stats,
                             painted |-> painted ] ])
       IN  /\ finalMask' = acc.mask
           /\ visualization' = acc.vis
           /\ stats' = acc.stats
           /\ painted' = acc.painted
    /\ pc' = "open"
    /\ UNCHANGED <<imageData, params, result, hsvValues, blackPixelsMask,
                   initialMask, openedMask>>
    /\ UNCHANGED <<callVars, appVars, displayVars>>

ApplyOpening ==
    /\ pc = "open"
    /\ openedMask' = morphologicalOpenMask(finalMask, imageData.width,
                                           imageData.height,
                                           params.morphOpeningKernelSize)
    /\ pc' = "apply"
    /\ UNCHANGED <<imageData, params, result, visualization, stats, hsvValues,
                   blackPixelsMask, initialMask, finalMask, painted>>
    /\ UNCHANGED <<callVars, appVars, displayVars>>

\* resolve({ processedImage: new ImageData(result, width, height), ... }):
\* ImageData is the platform's constructor, not code of this repository.  The
\* DOM constructor throws on a zero width or height, and nothing here catches
\* it; an implementation that accepts them resolves.  Both outcomes are kept.
ResolveOutcomes(img) ==
    IF img.width = 0 \/ img.height = 0 THEN {"done", "thrown"} ELSE {"done"}

\* write the opened mask into both outputs and resolve
ApplyMask ==
    /\ pc = "apply"
    /\ LET acc == ApplyLoop(openedMask,
                 [ i   |-> 0,
                   acc |-> [ res     |-> result,
                             vis     |-> visualization,
                             painted |-> painted ] ])
       IN  /\ result' = acc.res
           /\ visualization' = acc.vis
           /\ painted' = acc.painted
    /\ pc' \in ResolveOutcomes(imageData)
    /\ UNCHANGED <<imageData, params, stats, hsvValues, blackPixelsMask,
                   initialMask, finalMask, openedMask>>
    /\ UNCHANGED <<callVars, appVars, displayVars>>

Next ==
    \/ Start
    \/ FindBlackPixels
    \/ BuildInitialMask
    \/ FilterNearBlack
    \/ ApplyOpening
    \/ ApplyMask

Spec == Init /\ [][Next]_vars

----------------------------------------------------------------------------
(* Opening alone: every boolean mask of every shape with at most           *)
(* MaxMaskCells cells is handed to the opening step of processImage.       *)

KernelSizes == {3, 5, 7}

InitMorph ==
    /\ \E wh \in Shapes(MaxMaskCells) :
         imageData = [width |-> wh[1], height |-> wh[2], data |-> Unset]
    /\ params \in { paramsWithWhitelist(
                        [defaultParams EXCEPT !.morphOpeningKernelSize = k], NoMask) :
                      k \in KernelSizes }
    /\ finalMask \in [Pixels(imageData) -> BOOLEAN]
    /\ pc = "open"
    /\ result = Unset
    /\ visualization = Unset
    /\ stats = Unset
    /\ hsvValues = Unset
    /\ blackPixelsMask = Unset
    /\ initialMask = Unset
    /\ openedMask = Unset
    /\ painted = Unset
    /\ NoCall
    /\ AppIdle

SpecMorph == InitMorph /\ [][ApplyOpening]_vars

----------------------------------------------------------------------------
(* The all-candidate scenario: opaque rasters up to MaxSide x MaxSide in   *)
(* which every pixel is bright and unsaturated, under the default          *)
(* thresholds and opening kernel.                                          *)

Checkerboard(w, h, c1, c2) ==
    [ width |-> w, height |-> h,
      data |-> [ i \in 0 .. (w * h - 1) |->
                   IF ((i % w) + (i \div w)) % 2 = 0 THEN c1 ELSE c2 ] ]

InitAllCandidate ==
    /\ imageData \in { Checkerboard(w, h, c1, c2) :
                         w \in 1 .. MaxSide, h \in 1 .. MaxSide,
                         c1 \in BrightPalette, c2 \in BrightPalette }
    /\ params \in { paramsWithWhitelist(
                        [defaultParams EXCEPT !.structuringElementSize = s,
                                              !.blurKernelSize = k], NoMask) :
                      s \in {3, 25}, k \in {3, 12} }
    /\ InitBuffers

SpecAllCandidate == InitAllCandidate /\ [][Next]_vars

----------------------------------------------------------------------------
(* Mismatched whitelist: processImage is handed a manual whitelist mask    *)
(* whose length differs from width * height.                               *)

\* largest number of pixels of a raster in SpecMismatch
MaxMismatchPixels == 3

\* the all-marked masks of every length from 1 to n + 1 other than n
MismatchedMasks(n) ==
    { [i \in 0 .. (len - 1) |-> TRUE] : len \in (1 .. (n + 1)) \ {n} }

InitMismatch ==
    /\ imageData \in Rasters(Shapes(MaxMismatchPixels), Palette)
    /\ params \in { paramsWithWhitelist(q, m) :
                      q \in ParamSets,
                      m \in MismatchedMasks(PixelCount(imageData)) }
    /\ InitBuffers

SpecMismatch == InitMismatch /\ [][Next]_vars

----------------------------------------------------------------------------
(* Degenerate input: rasters without pixels, and rasters of up to          *)
(* MaxPixels pixels in which every pixel has alpha 0.                      *)

ClearBlack == Rgba(0, 0, 0, 0)
ClearRed == Rgba(255, 0, 0, 0)

TransparentPalette == {ClearGrey, ClearBlack, ClearRed}

ZeroShapes ==
    { <<0, 0>> } \cup { <<0, h>> : h \in 1 .. MaxPixels }
                 \cup { <<w, 0>> : w \in 1 .. MaxPixels }

InitDegenerate ==
    /\ imageData \in Rasters(ZeroShapes, TransparentPalette)
                       \cup Rasters(Shapes(MaxPixels), TransparentPalette)
    /\ params \in { paramsWithWhitelist(q, NoMask) : q \in ParamSets }
    /\ InitBuffers

SpecDegenerate == InitDegenerate /\ [][Next]_vars

----------------------------------------------------------------------------
(* Black ink: rasters of up to MaxInkPixels pixels under structuring       *)
(* element sizes 0, 1 and 3, with the default black thresholds and with a  *)
(* black brightness threshold of 95, under which the light grey of the     *)
(* palette is both black and an artifact candidate.                        *)

\* largest number of pixels of a raster in SpecBlackInk
MaxInkPixels == 4

InkPalette == {White, LightGrey, Black, ClearGrey}

InkParamSets ==
    { [defaultParams EXCEPT !.structuringElementSize = s,
                            !.blurKernelSize = 3,
                            !.blackPixelBrightnessThreshold = b] :
        s \in {0, 1, 3}, b \in {25, 95} }

InitBlackInk ==
    /\ imageData \in Rasters(Shapes(MaxInkPixels), InkPalette)
    /\ params \in { paramsWithWhitelist(q, NoMask) : q \in InkParamSets }
    /\ InitBuffers

SpecBlackInk == InitBlackInk /\ [][Next]_vars

----------------------------------------------------------------------------
(* Direct calls of the helper functions.  call holds the arguments that    *)
(* are not already in a pipeline variable, ret the value returned.         *)

CallBuffers ==
    /\ pc = "call"
    /\ ret = Unset
    /\ params = paramsWithWhitelist(defaultParams, NoMask)
    /\ result = Unset
    /\ visualization = Unset
    /\ stats = Unset
    /\ initialMask = Unset
    /\ openedMask = Unset
    /\ painted = Unset
    /\ AppIdle

(* calculateLocalMeanSaturation on every raster of at most MaxMeanPixels   *)
(* pixels, at every position of the raster and one step past its right and *)
(* bottom edge, with a kernel of one cell, an odd and an even kernel.      *)

\* largest number of pixels of a raster in SpecMean
MaxMeanPixels == 4

MeanPalette == {PureRed, Pale, ClearRed}

MeanKernelSizes == {1, 3, 4}

InitMean ==
    /\ imageData \in Rasters(Shapes(MaxMeanPixels), MeanPalette)
    /\ hsvValues = [ i \in Pixels(imageData) |->
                       rgbToHsv(imageData.data[i].r, imageData.data[i].g,
                                imageData.data[i].b) ]
    /\ call \in { [x |-> x, y |-> y, kernelSize |-> k] :
                    x \in 0 .. imageData.width, y \in 0 .. imageData.height,
                    k \in MeanKernelSizes }
    /\ blackPixelsMask = Unset
    /\ finalMask = Unset
    /\ CallBuffers

MeanCall ==
    /\ pc = "call"
    /\ ret' = calculateLocalMeanSaturation(imageData.data, hsvValues,
                                           imageData.width, imageData.height,
                                           call.x, call.y, call.kernelSize)
    /\ pc' = "returned"
    /\ UNCHANGED <<imageData, params, result, visualization, stats, hsvValues,
                   blackPixelsMask, initialMask, finalMask, openedMask, painted,
                   call, appVars, displayVars>>

SpecMean == InitMean /\ [][MeanCall]_vars

(* isNearBlackPixelOptimized on every black mask of every shape with at    *)
(* most MaxNearCells cells, at every pixel of the raster.                  *)

\* largest number of cells of a mask in SpecNear
MaxNearCells == 6

StructureSizes == {1, 3, 4, 5}

InitNear ==
    /\ \E wh \in Shapes(MaxNearCells) :
         imageData = [width |-> wh[1], height |-> wh[2], data |-> Unset]
    /\ blackPixelsMask \in [Pixels(imageData) -> BOOLEAN]
    /\ call \in { [x |-> x, y |-> y, structureSize |-> s] :
                    x \in 0 .. (imageData.width - 1),
                    y \in 0 .. (imageData.height - 1),
                    s \in StructureSizes }
    /\ hsvValues = Unset
    /\ finalMask = Unset
    /\ CallBuffers

NearCall ==
    /\ pc = "call"
    /\ ret' = isNearBlackPixelOptimized(blackPixelsMask, imageData.width,
                                        imageData.height, call.x, call.y,
                                        call.structureSize)
    /\ pc' = "returned"
    /\ UNCHANGED <<imageData, params, result, visualization, stats, hsvValues,
                   blackPixelsMask, initialMask, finalMask, openedMask, painted,
                   call, appVars, displayVars>>

SpecNear == InitNear /\ [][NearCall]_vars

(* erodeMask and dilateMask on every boolean mask of every shape with at   *)
(* most MaxOpCells cells; the mask handed over is held in finalMask.       *)

\* largest number of cells of a mask in SpecErodeDilate
MaxOpCells == 9

OpKernelSizes == {1, 3, 5}

InitErodeDilate ==
    /\ \E wh \in Shapes(MaxOpCells) :
         imageData = [width |-> wh[1], height |-> wh[2], data |-> Unset]
    /\ finalMask \in [Pixels(imageData) -> BOOLEAN]
    /\ call \in { [fn |-> f, kernelSize |-> k] :
                    f \in {"erodeMask", "dilateMask"}, k \in OpKernelSizes }
    /\ hsvValues = Unset
    /\ blackPixelsMask = Unset
    /\ CallBuffers

ErodeCall ==
    /\ pc = "call"
    /\ call.fn = "erodeMask"
    /\ ret' = erodeMask(finalMask, imageData.width, imageData.height,
                        call.kernelSize)
    /\ pc' = "returned"
    /\ UNCHANGED <<imageData, params, result, visualization, stats, hsvValues,
                   blackPixelsMask, initialMask, finalMask, openedMask, painted,
                   call, appVars, displayVars>>

DilateCall ==
    /\ pc = "call"
    /\ call.fn = "dilateMask"
    /\ ret' = dilateMask(finalMask, imageData.width, imageData.height,
                         call.kernelSize)
    /\ pc' = "returned"
    /\ UNCHANGED <<imageData, params, result, visualization, stats, hsvValues,
                   blackPixelsMask, initialMask, finalMask, openedMask, painted,
                   call, appVars, displayVars>>

NextErodeDilate ==
    \/ ErodeCall
    \/ DilateCall

SpecErodeDilate == InitErodeDilate /\ [][NextErodeDilate]_vars

----------------------------------------------------------------------------
(* The App component with its parameter controls and the brush of the      *)
(* image display.  An image stands for its ImageData object and is named   *)
(* by the number of the user event that selected it; a manual whitelist    *)
(* mask is named by the image it was painted on and the number of strokes  *)
(* it holds.  The results App shows (processedImage, visualizationImage,   *)
(* processingStats, always set together) are named by the invocation that  *)
(* produced them: the image and the params object it handed to             *)
(* processImage, and its number.                                           *)

\* largest number of user events in SpecApp
MaxEvents == 5

ThresholdNames ==
    { "brightnessThreshold", "saturationThreshold", "meanSaturationThreshold",
      "blackPixelBrightnessThreshold", "blackPixelSaturationThreshold" }

KernelNames ==
    { "structuringElementSize", "blurKernelSize", "morphOpeningKernelSize" }

\* <<name, value>> a range input can report: min + k * step <= max
SliderInputs ==
    { <<"blurKernelSize", 3>>, <<"morphOpeningKernelSize", 5>>,
      <<"brightnessThreshold", 50>> }

\* <<name, number typed>> of the number inputs; 0 stands for the empty field
TextInputs ==
    { <<"structuringElementSize", 4>>, <<"blurKernelSize", 0>>,
      <<"saturationThreshold", 200>> }

\* the min/max constraints of handleTextInputChange
TextValue(name, numValue) ==
    IF name \in ThresholdNames THEN Min(Max(numValue, 0), 100)
    ELSE IF name \in KernelNames
        THEN LET atLeast3 == Max(numValue, 3)
             IN  IF atLeast3 % 2 = 0 THEN atLeast3 + 1 ELSE atLeast3
    ELSE numValue

\* the debounce effect: the cleanup clears the timer of the previous run,
\* and a new 300 ms timer is set when there is image data; the timer holds
\* the processImageWithParams of this render, which closes over the state
DebounceEffect(data, p, mask) ==
    IF data # 0
        THEN << [image |-> data, params |-> paramsWithWhitelist(p, mask)] >>
        ELSE << >>

\* fault variant: Upload New Image leaves the mask state alone
MaskAfterUploadKept == manualWhitelistMask

\* setManualWhitelistMask(undefined) of Upload New Image
MaskAfterUpload == << >>

\* the mask the image display reports after one more stroke
StrokeMask ==
    LET before == IF manualWhitelistMask # << >>
                     /\ manualWhitelistMask[1].image = originalImage
                  THEN manualWhitelistMask[1].strokes ELSE 0
    IN  << [image |-> originalImage, strokes |-> before + 1] >>

\* fault variant: the invocation started last settles first
NextToSettleNewest(queue) == Len(queue)

\* the invocation in flight that settles next: each invocation waits for a
\* 10 ms timer and then for the 0 ms timer of processImage, and timers of
\* equal delay run in the order they were set
NextToSettle(queue) == 1

RemoveAt(queue, k) ==
    [ i \in 1 .. (Len(queue) - 1) |-> IF i < k THEN queue[i] ELSE queue[i + 1] ]

InitApp ==
    /\ pc = "app"
    /\ imageData = Unset
    /\ params = Unset
    /\ InitAppBuffers
    /\ NoCall
    /\ AppIdle

\* reader.onload of handleImageSelected; the effect on originalImage then
\* starts loading the image
SelectImage ==
    /\ originalImage = 0
    /\ events < MaxEvents
    /\ originalImage' = events + 1
    /\ loading' = loading \cup {events + 1}
    /\ events' = events + 1
    /\ UNCHANGED <<originalImageData, parameters, manualWhitelistMask,
                   isProcessing, debounceTimeout, inFlight, displayed,
                   isDrawing, invocations>>
    /\ UNCHANGED <<pipelineVars, callVars, displayVars>>

\* img.onload: setOriginalImageData, then the debounce effect
ImageLoaded ==
    /\ \E id \in loading :
         /\ loading' = loading \ {id}
         /\ originalImageData' = id
         /\ debounceTimeout' = DebounceEffect(id, parameters, manualWhitelistMask)
    /\ UNCHANGED <<originalImage, parameters, manualWhitelistMask, isProcessing,
                   inFlight, displayed, isDrawing, invocations, events>>
    /\ UNCHANGED <<pipelineVars, callVars, displayVars>>

\* App.handleParameterChange, then the debounce effect
handleParameterChange(name, value) ==
    /\ parameters' = [parameters EXCEPT ![name] = value]
    /\ debounceTimeout' = DebounceEffect(originalImageData, parameters',
                                         manualWhitelistMask)
    /\ events' = events + 1
    /\ UNCHANGED <<originalImage, originalImageData, manualWhitelistMask,
                   isProcessing, inFlight, displayed, isDrawing, loading,
                   invocations>>
    /\ UNCHANGED <<pipelineVars, callVars, displayVars>>

handleSliderChange ==
    /\ originalImage # 0
    /\ ~isProcessing
    /\ events < MaxEvents
    /\ \E in \in SliderInputs : handleParameterChange(in[1], in[2])

handleTextInputChange ==
    /\ originalImage # 0
    /\ ~isProcessing
    /\ events < MaxEvents
    /\ \E in \in TextInputs :
         handleParameterChange(in[1], TextValue(in[1], in[2]))

\* the Reset Parameters button
ResetParameters ==
    /\ originalImage # 0
    /\ ~isProcessing
    /\ events < MaxEvents
    /\ parameters' = defaultParams
    /\ debounceTimeout' = DebounceEffect(originalImageData, parameters',
                                         manualWhitelistMask)
    /\ events' = events + 1
    /\ UNCHANGED <<originalImage, originalImageData, manualWhitelistMask,
                   isProcessing, inFlight, displayed, isDrawing, loading,
                   invocations>>
    /\ UNCHANGED <<pipelineVars, callVars, displayVars>>

\* the Upload New Image button; the image display is unmounted with it
UploadNewImage ==
    /\ originalImage # 0
    /\ ~isProcessing
    /\ events < MaxEvents
    /\ originalImage' = 0
    /\ originalImageData' = 0
    /\ displayed' = << >>
    /\ manualWhitelistMask' = MaskAfterUpload
    /\ debounceTimeout' = DebounceEffect(originalImageData', parameters,
                                         manualWhitelistMask')
    /\ isDrawing' = FALSE
    /\ events' = events + 1
    /\ UNCHANGED <<parameters, isProcessing, inFlight, loading, invocations>>
    /\ UNCHANGED <<pipelineVars, callVars, displayVars>>

\* ImageDisplay.handleCanvasMouseDown with the whitelist brush
handleCanvasMouseDown ==
    /\ originalImage # 0
    /\ ~isProcessing
    /\ ~isDrawing
    /\ events < MaxEvents
    /\ isDrawing' = TRUE
    /\ events' = events + 1
    /\ UNCHANGED <<originalImage, originalImageData, parameters,
                   manualWhitelistMask, isProcessing, debounceTimeout, inFlight,
                   displayed, loading, invocations>>
    /\ UNCHANGED <<pipelineVars, callVars, displayVars>>

\* ImageDisplay.handleCanvasMouseUp, the effect that saves the stroke and
\* calls onManualWhitelist, App.handleManualWhitelist, the debounce effect
handleCanvasMouseUp ==
    /\ isDrawing
    /\ events < MaxEvents
    /\ isDrawing' = FALSE
    /\ manualWhitelistMask' = StrokeMask
    /\ debounceTimeout' = DebounceEffect(originalImageData, parameters,
                                         manualWhitelistMask')
    /\ events' = events + 1
    /\ UNCHANGED <<originalImage, originalImageData, parameters, isProcessing,
                   inFlight, displayed, loading, invocations>>
    /\ UNCHANGED <<pipelineVars, callVars, displayVars>>

\* the debounce timer fires: processImageWithParams up to its first await
TimerFire ==
    /\ debounceTimeout # << >>
    /\ isProcessing' = TRUE
    /\ inFlight' = Append(inFlight,
                          [ image  |-> debounceTimeout[1].image,
                            params |-> debounceTimeout[1].params,
                            seq    |-> invocations + 1 ])
    /\ invocations' = invocations + 1
    /\ debounceTimeout' = << >>
    /\ UNCHANGED <<originalImage, originalImageData, parameters,
                   manualWhitelistMask, displayed, isDrawing, loading, events>>
    /\ UNCHANGED <<pipelineVars, callVars, displayVars>>

\* processImageWithParams from the call of processImage to its finally
Settle ==
    /\ inFlight # << >>
    /\ LET k == NextToSettle(inFlight)
       IN  /\ displayed' = << inFlight[k] >>
           /\ inFlight' = RemoveAt(inFlight, k)
    /\ isProcessing' = FALSE
    /\ UNCHANGED <<originalImage, originalImageData, parameters,
                   manualWhitelistMask, debounceTimeout, isDrawing, loading,
                   invocations, events>>
    /\ UNCHANGED <<pipelineVars, callVars, displayVars>>

NextApp ==
    \/ SelectImage
    \/ ImageLoaded
    \/ handleSliderChange
    \/ handleTextInputChange
    \/ ResetParameters
    \/ UploadNewImage
    \/ handleCanvasMouseDown
    \/ handleCanvasMouseUp
    \/ TimerFire
    \/ Settle

SpecApp == InitApp /\ [][NextApp]_vars

\* timers fire, image loads and invocations of processImage end
SpecAppFair ==
    /\ SpecApp
    /\ WF_vars(ImageLoaded)
    /\ WF_vars(TimerFire)
    /\ WF_vars(Settle)

----------------------------------------------------------------------------
(* The ImageDisplay component: the whitelist brush, the mask it paints and *)
(* the history of saved masks.  Mouse positions are image coordinates.     *)
(* App stays the parent: what onManualWhitelist reports becomes App's mask *)
(* state, the debounce timer fires and the invocation of processImage      *)
(* settles as in SpecApp; here App's mask is the reported array itself.    *)

\* largest number of user events in SpecDisplay
MaxDisplayEvents == 7

\* img.width and img.height of the image the display loads
DisplayImage == [width |-> 5, height |-> 2]

\* mouse positions over the canvas, divided by the zoom level
DrawPositions == { <<0, 0>>, <<4, 0>>, <<1, 1>> }

\* values of the brush diameter slider used here
BrushSizes == { 2 }

\* new Array(width * height).fill(false)
emptyMask(dimensions) ==
    [ i \in 0 .. (dimensions.width * dimensions.height - 1) |-> FALSE ]

\* the stamp of the brush: the cells of the image within radius of the
\* centre are set in the copy of the mask; radius is <<numerator, denominator>>
createCircularWhitelistMask(centerX, centerY, radius, width, height, existingMask) ==
    [ i \in DOMAIN existingMask |->
        \/ existingMask[i]
        \/ /\ i < width * height
           /\ radius[2] * radius[2]
                * ( ((i % width) - centerX) * ((i % width) - centerX)
                  + ((i \div width) - centerY) * ((i \div width) - centerY) )
                <= radius[1] * radius[1] ]

\* Math.round of num / den, num >= 0 and den > 0
Round(num, den) == (2 * num + den) \div (2 * den)

\* Math.max(1, Math.ceil(distance / (whitelistBrushSize * 0.25))) for the
\* distance between two positions: the least n with n * size >= 4 * distance
StrokePoints(lastX, lastY, imageX, imageY, size) ==
    LET d2 == (imageX - lastX) * (imageX - lastX)
                + (imageY - lastY) * (imageY - lastY)
        ceil == CHOOSE n \in 0 .. (4 * d2) :
                  /\ n * n * size * size >= 16 * d2
                  /\ \A m \in 0 .. (n - 1) : m * m * size * size < 16 * d2
    IN  Max(1, ceil)

\* applyBrushAtPosition(x, y) run in a render whose mask state is base: the
\* value handed to setManualWhitelistMask (base itself when nothing is set);
\* x and y are <<numerator, denominator>>
applyBrushAtPosition(x, y, base) ==
    IF imageDimensions.width = 0 \/ imageDimensions.height = 0 THEN base
    ELSE createCircularWhitelistMask(Round(x[1], x[2]), Round(y[1], y[2]),
                                     <<whitelistBrushSize, 2>>,
                                     imageDimensions.width,
                                     imageDimensions.height, base)

\* the loop of handleCanvasMouseMove from step i on: every call of
\* applyBrushAtPosition starts from the mask of the render (base), and the
\* last setManualWhitelistMask of the handler is the one that counts
RECURSIVE StampLoop(_, _, _, _, _, _, _, _)
StampLoop(i, points, lastX, lastY, imageX, imageY, base, pending) ==
    IF i > points THEN pending
    ELSE StampLoop(i + 1, points, lastX, lastY, imageX, imageY, base,
                   applyBrushAtPosition(
                       <<lastX * points + (imageX - lastX) * i, points>>,
                       <<lastY * points + (imageY - lastY) * i, points>>,
                       base))

\* fault variant: the snapshot at the cursor is dropped too
PushAtCursor(mask) == Append(SubSeq(history, 1, historyIndex), mask)

\* history.slice(0, historyIndex + 1) with one more mask pushed
PushAfterCursor(mask) == Append(SubSeq(history, 1, historyIndex + 1), mask)

\* App.handleManualWhitelist called by onManualWhitelist(mask), then the
\* debounce effect of App
Report(mask) ==
    /\ manualWhitelistMask' = << mask >>
    /\ debounceTimeout' = DebounceEffect(originalImageData, parameters,
                                         manualWhitelistMask')
    /\ reports' = reports + 1

NoReport == UNCHANGED <<manualWhitelistMask, debounceTimeout, reports>>

\* what a handler leaves of lastOp
Op(name, accepted, position) ==
    [ op |-> name, ok |-> accepted, prev |-> lastOp.op, mask |-> displayMask,
      index |-> historyIndex, size |-> Len(history),
      from |-> lastDrawPosition, to |-> position ]

InitDisplay ==
    /\ pc = "display"
    /\ imageData = Unset
    /\ params = Unset
    /\ InitAppBuffers
    /\ NoCall
    /\ originalImage = 1
    /\ originalImageData = 1
    /\ parameters = defaultParams
    /\ manualWhitelistMask = << >>
    /\ isProcessing = FALSE
    /\ debounceTimeout = << >>
    /\ inFlight = << >>
    /\ displayed = << >>
    /\ isDrawing = FALSE
    /\ loading = {}
    /\ invocations = 0
    /\ events = 0
    /\ DisplayIdle

\* img.onload of the image display: setImageDimensions, then the effect
\* that initialises the mask and the history
DisplayImageLoaded ==
    /\ imageDimensions = [width |-> 0, height |-> 0]
    /\ imageDimensions' = DisplayImage
    /\ displayMask' = emptyMask(DisplayImage)
    /\ history' = << emptyMask(DisplayImage) >>
    /\ historyIndex' = 0
    /\ hasUnsavedChanges' = FALSE
    /\ lastOp' = Op("load", TRUE, << >>)
    /\ NoReport
    /\ UNCHANGED <<isWhitelistBrushActive, whitelistBrushSize, lastDrawPosition,
                   originalImage, originalImageData, parameters, isProcessing,
                   inFlight, displayed, isDrawing, loading, invocations, events>>
    /\ UNCHANGED <<pipelineVars, callVars>>

\* the Whitelist Brush button
handleWhitelistBrushToggle ==
    /\ ~isProcessing
    /\ events < MaxDisplayEvents
    /\ isWhitelistBrushActive' = ~isWhitelistBrushActive
    /\ lastOp' = Op("toggle", TRUE, << >>)
    /\ events' = events + 1
    /\ NoReport
    /\ UNCHANGED <<imageDimensions, displayMask, history, historyIndex,
                   hasUnsavedChanges, whitelistBrushSize, lastDrawPosition,
                   originalImage, originalImageData, parameters, isProcessing,
                   inFlight, displayed, isDrawing, loading, invocations>>
    /\ UNCHANGED <<pipelineVars, callVars>>

\* the brush diameter slider
handleWhitelistBrushSizeChange ==
    /\ isWhitelistBrushActive
    /\ ~isProcessing
    /\ events < MaxDisplayEvents
    /\ \E size \in BrushSizes :
         /\ size # whitelistBrushSize
         /\ whitelistBrushSize' = size
    /\ lastOp' = Op("size", TRUE, << >>)
    /\ events' = events + 1
    /\ NoReport
    /\ UNCHANGED <<imageDimensions, displayMask, history, historyIndex,
                   hasUnsavedChanges, isWhitelistBrushActive, lastDrawPosition,
                   originalImage, originalImageData, parameters, isProcessing,
                   inFlight, displayed, isDrawing, loading, invocations>>
    /\ UNCHANGED <<pipelineVars, callVars>>

\* ImageDisplay.handleCanvasMouseDown at a position
DisplayMouseDown ==
    /\ events < MaxDisplayEvents
    /\ \E pos \in DrawPositions :
         LET accepted == isWhitelistBrushActive /\ ~isProcessing
         IN  /\ lastOp' = Op("down", accepted, pos)
             /\ IF accepted
                  THEN /\ isDrawing' = TRUE
                       /\ hasUnsavedChanges' = TRUE
                       /\ displayMask' =
                            applyBrushAtPosition(<<pos[1], 1>>, <<pos[2], 1>>,
                                                 displayMask)
                       /\ lastDrawPosition' = pos
                  ELSE UNCHANGED <<isDrawing, hasUnsavedChanges, displayMask,
                                   lastDrawPosition>>
    /\ events' = events + 1
    /\ NoReport
    /\ UNCHANGED <<imageDimensions, history, historyIndex,
                   isWhitelistBrushActive, whitelistBrushSize,
                   originalImage, originalImageData, parameters, isProcessing,
                   inFlight, displayed, loading, invocations>>
    /\ UNCHANGED <<pipelineVars, callVars>>

\* the position handleCanvasMouseMove reads from lastDrawPositionRef as the
\* start of the segment: the ref was assigned the current position before
\* the test of isDrawing
SegmentStart(pos) == pos

\* ImageDisplay.handleCanvasMouseMove at a position
handleCanvasMouseMove ==
    /\ events < MaxDisplayEvents
    /\ \E pos \in DrawPositions :
         LET accepted == isDrawing /\ isWhitelistBrushActive /\ ~isProcessing
             last == SegmentStart(pos)
             points == StrokePoints(last[1], last[2], pos[1], pos[2],
                                    whitelistBrushSize)
         IN  /\ lastOp' = Op("move", accepted, pos)
             /\ lastDrawPosition' = pos
             /\ displayMask' =
                  IF accepted
                    THEN StampLoop(0, points, last[1], last[2], pos[1], pos[2],
                                   displayMask, displayMask)
                    ELSE displayMask
    /\ events' = events + 1
    /\ NoReport
    /\ UNCHANGED <<imageDimensions, history, historyIndex, hasUnsavedChanges,
                   isWhitelistBrushActive, whitelistBrushSize,
                   originalImage, originalImageData, parameters, isProcessing,
                   inFlight, displayed, isDrawing, loading, invocations>>
    /\ UNCHANGED <<pipelineVars, callVars>>

\* the effect that saves a finished stroke, run after a render in which
\* drawing has stopped: the mask is pushed after the cursor and reported
SaveEffect ==
    IF hasUnsavedChanges
      THEN /\ history' = PushAfterCursor(displayMask)
           /\ historyIndex' = Len(history') - 1
           /\ hasUnsavedChanges' = FALSE
           /\ Report(displayMask)
      ELSE /\ UNCHANGED <<history, historyIndex, hasUnsavedChanges>>
           /\ NoReport

\* ImageDisplay.handleCanvasMouseUp, then the effect that saves the stroke
DisplayMouseUp ==
    /\ events < MaxDisplayEvents
    /\ lastOp' = Op("up", isDrawing, << >>)
    /\ IF isDrawing
         THEN /\ isDrawing' = FALSE
              /\ SaveEffect
         ELSE /\ UNCHANGED <<isDrawing, history, historyIndex,
                             hasUnsavedChanges>>
              /\ NoReport
    /\ events' = events + 1
    /\ UNCHANGED <<imageDimensions, displayMask, isWhitelistBrushActive,
                   whitelistBrushSize, lastDrawPosition,
                   originalImage, originalImageData, parameters, isProcessing,
                   inFlight, displayed, loading, invocations>>
    /\ UNCHANGED <<pipelineVars, callVars>>

\* ImageDisplay.handleCanvasMouseLeave: handleCanvasMouseUp, the ref cleared
handleCanvasMouseLeave ==
    /\ events < MaxDisplayEvents
    /\ lastOp' = Op("leave", isDrawing, << >>)
    /\ IF isDrawing
         THEN /\ isDrawing' = FALSE
              /\ SaveEffect
         ELSE /\ UNCHANGED <<isDrawing, history, historyIndex,
                             hasUnsavedChanges>>
              /\ NoReport
    /\ lastDrawPosition' = << >>
    /\ events' = events + 1
    /\ UNCHANGED <<imageDimensions, displayMask, isWhitelistBrushActive,
                   whitelistBrushSize,
                   originalImage, originalImageData, parameters, isProcessing,
                   inFlight, displayed, loading, invocations>>
    /\ UNCHANGED <<pipelineVars, callVars>>

\* newIndex of handleRedo
RedoIndex == historyIndex + 1

\* newIndex of handleUndo
UndoIndex == historyIndex - 1

\* a step of the cursor to newIndex: the snapshot there becomes the mask and
\* is reported
MoveCursor(newIndex) ==
    /\ displayMask' = history[newIndex + 1]
    /\ historyIndex' = newIndex
    /\ Report(history[newIndex + 1])

\* ImageDisplay.handleUndo, from the Undo button or Ctrl+Z
handleUndo ==
    /\ isWhitelistBrushActive
    /\ ~isProcessing
    /\ events < MaxDisplayEvents
    /\ LET accepted == historyIndex > 0 /\ ~isDrawing /\ ~isProcessing
       IN  /\ lastOp' = Op("undo", accepted, << >>)
           /\ IF accepted
                THEN MoveCursor(UndoIndex)
                ELSE /\ UNCHANGED <<displayMask, historyIndex>>
                     /\ NoReport
    /\ events' = events + 1
    /\ UNCHANGED <<imageDimensions, history, hasUnsavedChanges,
                   isWhitelistBrushActive, whitelistBrushSize, lastDrawPosition,
                   originalImage, originalImageData, parameters, isProcessing,
                   inFlight, displayed, isDrawing, loading, invocations>>
    /\ UNCHANGED <<pipelineVars, callVars>>

\* ImageDisplay.handleRedo, from the Redo button, Ctrl+Y or Ctrl+Shift+Z
handleRedo ==
    /\ isWhitelistBrushActive
    /\ ~isProcessing
    /\ events < MaxDisplayEvents
    /\ LET accepted == /\ historyIndex < Len(history) - 1
                       /\ ~isDrawing
                       /\ ~isProcessing
       IN  /\ lastOp' = Op("redo", accepted, << >>)
           /\ IF accepted
                THEN MoveCursor(RedoIndex)
                ELSE /\ UNCHANGED <<displayMask, historyIndex>>
                     /\ NoReport
    /\ events' = events + 1
    /\ UNCHANGED <<imageDimensions, history, hasUnsavedChanges,
                   isWhitelistBrushActive, whitelistBrushSize, lastDrawPosition,
                   originalImage, originalImageData, parameters, isProcessing,
                   inFlight, displayed, isDrawing, loading, invocations>>
    /\ UNCHANGED <<pipelineVars, callVars>>

\* ImageDisplay.handleClearWhitelist, the Clear button
handleClearWhitelist ==
    /\ isWhitelistBrushActive
    /\ ~isProcessing
    /\ events < MaxDisplayEvents
    /\ LET accepted == /\ imageDimensions.width > 0
                       /\ imageDimensions.height > 0
                       /\ ~isProcessing
           clearMask == emptyMask(imageDimensions)
       IN  /\ lastOp' = Op("clear", accepted, << >>)
           /\ IF accepted
                THEN /\ displayMask' = clearMask
                     /\ history' = PushAfterCursor(clearMask)
                     /\ historyIndex' = Len(history') - 1
                     /\ Report(clearMask)
                ELSE /\ UNCHANGED <<displayMask, history, historyIndex>>
                     /\ NoReport
    /\ events' = events + 1
    /\ UNCHANGED <<imageDimensions, hasUnsavedChanges,
                   isWhitelistBrushActive, whitelistBrushSize, lastDrawPosition,
                   originalImage, originalImageData, parameters, isProcessing,
                   inFlight, displayed, isDrawing, loading, invocations>>
    /\ UNCHANGED <<pipelineVars, callVars>>

NextDisplay ==
    \/ DisplayImageLoaded
    \/ handleWhitelistBrushToggle
    \/ handleWhitelistBrushSizeChange
    \/ DisplayMouseDown
    \/ handleCanvasMouseMove
    \/ DisplayMouseUp
    \/ handleCanvasMouseLeave
    \/ handleUndo
    \/ handleRedo
    \/ handleClearWhitelist
    \/ TimerFire
    \/ Settle

SpecDisplay == InitDisplay /\ [][NextDisplay]_vars

----------------------------------------------------------------------------
(* Vocabulary of the properties *)

StageNo ==
    [ start |-> 0, black |-> 1, pass1 |-> 2, pass2 |-> 3, open |-> 4,
      apply |-> 5, done |-> 6 ]

\* the stage that leaves pc at s has run
Reached(s) == StageNo[pc] >= StageNo[s]

Done == pc = "done"

Src(i) == imageData.data[i]

PixelsOf == Pixels(imageData)

Count(mask) == Cardinality({ i \in DOMAIN mask : mask[i] })

AlphaZeroCount(buf) == Cardinality({ i \in DOMAIN buf : buf[i].a = 0 })

HasRgb(px, r, g, b) == px.r = r /\ px.g = g /\ px.b = b

XOf(i) == i % imageData.width

YOf(i) == i \div imageData.width

DistanceSquared(i, j) ==
    (XOf(i) - XOf(j)) * (XOf(i) - XOf(j)) + (YOf(i) - YOf(j)) * (YOf(i) - YOf(j))

ManualMask == params.manualWhitelistMask

\* the pixels the run made transparent: transparent now, not in the source
MadeTransparent(i) == result[i].a = 0 /\ Src(i).a # 0

----------------------------------------------------------------------------
(* C1 - whitelist override.  Once processImage has finished, every pixel   *)
(* set true in the manual whitelist mask has the source alpha in the       *)
(* cleaned output.                                                         *)
C1_WhitelistOverride ==
    Done => \A i \in DOMAIN ManualMask :
                ManualMask[i] => result[i].a = Src(i).a

(* C2 - transparency preservation.  A source pixel with alpha 0 is in none *)
(* of the black, initial, final and opened masks, and has alpha 0 in the   *)
(* cleaned and in the visualization buffer, at every stage.                *)
C2_TransparencyPreserved ==
    \A i \in PixelsOf :
        Src(i).a = 0 =>
            /\ Reached("black") => result[i].a = 0 /\ visualization[i].a = 0
            /\ Reached("pass1") => ~blackPixelsMask[i]
            /\ Reached("pass2") => ~initialMask[i]
            /\ Reached("open")  => ~finalMask[i]
            /\ Reached("apply") => ~openedMask[i]

\* a finished run on a raster that has a transparent pixel next to erased ones
C2_Witness ==
    /\ Done
    /\ \E i \in PixelsOf : Src(i).a = 0
    /\ \E i \in PixelsOf : openedMask[i]

(* C3 - mask monotonicity.  The final mask is a subset of the initial      *)
(* mask, so is the opened mask, and every pixel the run made transparent   *)
(* is in the initial mask.                                                 *)
C3_MaskMonotone ==
    /\ Reached("open")  => \A i \in PixelsOf : finalMask[i] => initialMask[i]
    /\ Reached("apply") => \A i \in PixelsOf : openedMask[i] => initialMask[i]
    /\ Done => \A i \in PixelsOf : MadeTransparent(i) => initialMask[i]

\* a finished run in which pass 2 dropped an initial-mask pixel and others were erased
C3_Witness ==
    /\ Done
    /\ \E i \in PixelsOf : initialMask[i] /\ ~finalMask[i]
    /\ \E i \in PixelsOf : MadeTransparent(i)
    /\ \E i \in PixelsOf : ~initialMask[i] /\ Src(i).a # 0

(* C4 - opening is idempotent.  Opening the opened mask again, with the    *)
(* same kernel size, returns the opened mask.                              *)
C4_OpenIdempotent ==
    pc = "apply" =>
        morphologicalOpenMask(openedMask, imageData.width, imageData.height,
                              params.morphOpeningKernelSize) = openedMask

\* an opening that removed some cells of a 2-D mask and kept others
C4_Witness ==
    /\ pc = "apply"
    /\ imageData.width >= 3
    /\ imageData.height >= 3
    /\ openedMask # finalMask
    /\ \E i \in PixelsOf : openedMask[i]

(* C5 - counters against masks.  stats.blackPixels is the number of true   *)
(* entries of the black-pixel mask and stats.replacedPixels the number of  *)
(* true entries of the final mask before opening.                          *)
C5_StatsMatchMasks ==
    /\ Reached("pass1") => stats.blackPixels = Count(blackPixelsMask)
    /\ Reached("open")  => stats.replacedPixels = Count(finalMask)

\* a finished run with black pixels where opening erased fewer pixels than counted
C5_Witness ==
    /\ Done
    /\ stats.blackPixels > 0
    /\ stats.replacedPixels > Count(openedMask)
    /\ \E i \in PixelsOf : Src(i).a = 0

C7_GreenIffErased ==
    Done => \A i \in PixelsOf :
                /\ ("green" \in painted[i]) <=> MadeTransparent(i)
                /\ "green" \in painted[i] => HasRgb(visualization[i], 0, 255, 0)

\* a finished run with a green pixel and an opaque pixel that is not green
C7_Witness ==
    /\ Done
    /\ \E i \in PixelsOf : "green" \in painted[i]
    /\ \E i \in PixelsOf : "green" \notin painted[i] /\ Src(i).a # 0

(* C8 - colour-rule exclusivity, as stated: a pixel painted red is in the  *)
(* black-pixel mask, a black-mask pixel shows red unless green overrode    *)
(* it, and no pixel is painted by two of the three rules.                  *)
C8_ColourRulesExclusive ==
    Done => \A i \in PixelsOf :
                /\ "red" \in painted[i] => blackPixelsMask[i]
                /\ (blackPixelsMask[i] /\ "green" \notin painted[i])
                      => HasRgb(visualization[i], 255, 0, 0)
                /\ Cardinality(painted[i]) <= 1

(* C8 - colour-rule exclusivity, amended: the pixels painted red are the   *)
(* black-mask pixels and green never overrides red; a black-mask pixel     *)
(* shows red unless it is also in the initial mask, and then the           *)
(* near-black rule repaints it blue; red followed by blue is the only way  *)
(* a pixel is painted by two rules, and it needs a black-pixel brightness  *)
(* threshold above the brightness threshold.                               *)
C8_ColourRulesAmended ==
    Done => \A i \in PixelsOf :
                /\ ("red" \in painted[i]) <=> blackPixelsMask[i]
                /\ ("blue" \in painted[i]) <=> (initialMask[i] /\ ~finalMask[i])
                /\ ("green" \in painted[i]) <=> openedMask[i]
                /\ "green" \in painted[i] => painted[i] = {"green"}
                /\ (blackPixelsMask[i] /\ ~initialMask[i])
                      => HasRgb(visualization[i], 255, 0, 0)
                /\ (blackPixelsMask[i] /\ initialMask[i])
                      => /\ painted[i] = {"red", "blue"}
                         /\ HasRgb(visualization[i], 0, 0, 255)
                /\ Cardinality(painted[i]) > 1
                      => /\ painted[i] = {"red", "blue"}
                         /\ params.blackPixelBrightnessThreshold
                              > params.brightnessThreshold

\* a finished run with a pixel painted red then blue and a pixel left red
C8_Witness ==
    /\ Done
    /\ \E i \in PixelsOf : painted[i] = {"red", "blue"}
    /\ \E i \in PixelsOf : painted[i] = {"red"}

(* C9 - all-candidate scenario.  On an opaque raster of bright,            *)
(* unsaturated pixels with no black pixel: no pixel is near black, the     *)
(* final mask is all true, opening with kernel 3 keeps it all true, the    *)
(* cleaned output is fully transparent, candidateArtifacts is              *)
(* width * height and blackPixels is 0.                                    *)
C9_AllCandidate ==
    /\ Reached("pass1") => /\ stats.blackPixels = 0
                           /\ \A i \in PixelsOf : ~blackPixelsMask[i]
    /\ Reached("pass2") => stats.candidateArtifacts = PixelCount(imageData)
    /\ Reached("open")  => /\ stats.nearBlackPixels = 0
                           /\ \A i \in PixelsOf : finalMask[i]
    /\ Reached("apply") => \A i \in PixelsOf : openedMask[i]
    /\ Done => /\ \A i \in PixelsOf : result[i] = Rgba(0, 0, 0, 0)
               /\ stats.candidateArtifacts = PixelCount(imageData)
               /\ stats.blackPixels = 0

\* the 5 x 5 all-white raster, processed with opening kernel 3
C9_Witness ==
    /\ Done
    /\ imageData.width = 5
    /\ imageData.height = 5
    /\ \A i \in PixelsOf : Src(i) = White
    /\ params.morphOpeningKernelSize = 3
    /\ \A i \in PixelsOf : result[i].a = 0

(* C10 - near-black protection.  Every initial-mask pixel whose squared    *)
(* distance to a black pixel is at most floor(structuringElementSize/2)^2  *)
(* is left out of the final mask, is counted in stats.nearBlackPixels,     *)
(* keeps its source pixel in the cleaned output and shows blue in the      *)
(* visualization.                                                          *)
NearBlack(i) ==
    \E b \in PixelsOf :
        /\ blackPixelsMask[b]
        /\ DistanceSquared(i, b) <= HalfOf(params.structuringElementSize)
                                      * HalfOf(params.structuringElementSize)

C10_NearBlackProtected ==
    Done =>
        /\ \A i \in PixelsOf :
              (initialMask[i] /\ NearBlack(i)) =>
                  /\ ~finalMask[i]
                  /\ result[i] = Src(i)
                  /\ result[i].a # 0
                  /\ HasRgb(visualization[i], 0, 0, 255)
        /\ stats.nearBlackPixels
             = Cardinality({ i \in PixelsOf : initialMask[i] /\ NearBlack(i) })

\* one black pixel among bright unsaturated ones, some within the radius and some not
C10_Witness ==
    /\ Done
    /\ Cardinality({ i \in PixelsOf : Src(i) = Black }) = 1
    /\ \A i \in PixelsOf : Src(i) \in {Black, LightGrey}
    /\ Count(blackPixelsMask) = 1
    /\ \E i \in PixelsOf : initialMask[i] /\ NearBlack(i)
    /\ \E i \in PixelsOf : initialMask[i] /\ ~NearBlack(i)

----------------------------------------------------------------------------
(* C11 - manual-whitelist statistic.  Once processImage has finished on a  *)
(* manual whitelist mask that marks exactly one pixel, and the classifier  *)
(* marked that pixel for removal (it is in the opened mask), the           *)
(* statistics carry a field manuallyWhitelistedPixels equal to 1 and the   *)
(* cleaned output keeps the pixel's source colour and alpha.               *)
C11_ManualWhitelistCounted ==
    Done =>
        \A i \in DOMAIN ManualMask :
            ( /\ ManualMask[i]
              /\ Cardinality({ j \in DOMAIN ManualMask : ManualMask[j] }) = 1
              /\ openedMask[i] )
            => /\ "manuallyWhitelistedPixels" \in DOMAIN stats
               /\ stats.manuallyWhitelistedPixels = 1
               /\ result[i] = Src(i)

(* C12 - dimension mismatch rejected.  When the manual whitelist mask is   *)
(* present and its length differs from width * height, processImage never  *)
(* gets past its entry: no output buffer and no statistics are produced.   *)
C12_MismatchRejected ==
    ( /\ ManualMask # NoMask
      /\ Length(ManualMask) # PixelCount(imageData) )
    => /\ pc = "start"
       /\ result = Unset
       /\ visualization = Unset
       /\ stats = Unset

\* the seven counters of the statistics record
Counters ==
    { stats.brightPixels, stats.lowSaturationPixels, stats.candidateArtifacts,
      stats.lowSaturationAreas, stats.nearBlackPixels, stats.replacedPixels,
      stats.blackPixels }

----------------------------------------------------------------------------
(* Vocabulary of the helper calls *)

Returned == pc = "returned"

Abs(n) == IF n < 0 THEN 0 - n ELSE n

\* the cells of the raster at most half away from (x, y) on both axes
InBoundsWindow(x, y, half) ==
    { c \in (0 .. (imageData.width - 1)) \X (0 .. (imageData.height - 1)) :
        Abs(c[1] - x) <= half /\ Abs(c[2] - y) <= half }

CellIndex(c) == c[2] * imageData.width + c[1]

\* the sum of the saturations of the non-transparent cells of a set
RECURSIVE SaturationSum(_)
SaturationSum(cells) ==
    IF cells = {} THEN <<0, 1>>
    ELSE LET c == CHOOSE d \in cells : TRUE
             rest == SaturationSum(cells \ {c})
         IN  IF imageData.data[CellIndex(c)].a # 0
                THEN FracAdd(rest, hsvValues[CellIndex(c)].s)
                ELSE rest

(* C15 - zero-padded local mean.  For a pixel of the raster the value      *)
(* calculateLocalMeanSaturation returns is the sum of the saturations of   *)
(* the non-transparent in-bounds window cells divided by the number of     *)
(* cells of the whole window, those outside the raster included.           *)
C15_ZeroPaddedMean ==
    ( /\ Returned
      /\ call.x < imageData.width
      /\ call.y < imageData.height )
    => LET half == call.kernelSize \div 2
           sum == SaturationSum(InBoundsWindow(call.x, call.y, half))
       IN  ret = Frac(sum[1], sum[2] * (2 * half + 1) * (2 * half + 1))

C19_NearBlackResult ==
    Returned =>
        LET r == call.structureSize \div 2
        IN  ret = \E kx \in 0 .. (imageData.width - 1),
                     ky \in 0 .. (imageData.height - 1) :
                      /\ Abs(kx - call.x) <= r
                      /\ Abs(ky - call.y) <= r
                      /\ (kx - call.x) * (kx - call.x)
                           + (ky - call.y) * (ky - call.y) <= r * r
                      /\ blackPixelsMask[ky * imageData.width + kx]

\* true is returned for a 3x2 mask whose black cells are one on the boundary
\* of the ellipse and, scanned later, one in the window but outside the ellipse
C19_Witness ==
    /\ Returned
    /\ ret = TRUE
    /\ imageData.width = 3 /\ imageData.height = 2
    /\ call = [x |-> 0, y |-> 0, structureSize |-> 5]
    /\ { i \in Pixels(imageData) : blackPixelsMask[i] } = {2, 5}

\* the cells of the raster inside the K x K window centred on pixel i, K odd
CentredWindow(i, K) ==
    { j \in PixelsOf :
        /\ Abs(XOf(j) - XOf(i)) <= (K - 1) \div 2
        /\ Abs(YOf(j) - YOf(i)) <= (K - 1) \div 2 }

----------------------------------------------------------------------------
(* Vocabulary of the App properties *)

\* what an invocation started now would hand to processImage
LatestParams == paramsWithWhitelist(parameters, manualWhitelistMask)

\* a step that starts an invocation of processImageWithParams
Invoked == Len(inFlight') > Len(inFlight)

NewestInvocation == inFlight'[Len(inFlight')]

(* C14 - kernel-size validation at the boundary.  In every reachable state *)
(* of the App, the structuringElementSize, blurKernelSize and              *)
(* morphOpeningKernelSize of every params object handed to processImage    *)
(* are odd integers of at least 3.                                         *)
C14_KernelSizesOddAtLeast3 ==
    \A k \in 1 .. Len(inFlight) :
        \A name \in KernelNames :
            /\ inFlight[k].params[name] >= 3
            /\ inFlight[k].params[name] % 2 = 1

C17_LastWriterWins ==
    /\ [](debounceTimeout # << >>
            => debounceTimeout = DebounceEffect(originalImageData, parameters,
                                                manualWhitelistMask))
    /\ [][ (displayed # << >> /\ displayed' # << >>)
             => displayed'[1].seq >= displayed[1].seq ]_vars
    /\ <>[](originalImageData # 0
              => /\ displayed # << >>
                 /\ displayed[1].image = originalImageData
                 /\ displayed[1].params = LatestParams)

\* a superseded invocation and a newer one with another mask are in flight
\* together
C17_Witness ==
    /\ Len(inFlight) = 2
    /\ inFlight[1].image = inFlight[2].image
    /\ inFlight[1].params # inFlight[2].params
    /\ debounceTimeout = << >>

----------------------------------------------------------------------------
(* Properties of the stages of processImage *)

\* pixel i is non-transparent, bright and unsaturated
IsCandidate(i) ==
    /\ Src(i).a # 0
    /\ hsvValues[i].v[1] > params.brightnessThreshold * hsvValues[i].v[2]
    /\ hsvValues[i].s[1] < params.saturationThreshold * hsvValues[i].s[2]

\* the local mean saturation around pixel i is below the threshold: the sum
\* over the in-bounds window, divided by its size, compared as a fraction
MeanBelowThreshold(i) ==
    LET window == InBoundsWindow(XOf(i), YOf(i), params.blurKernelSize \div 2)
        sum == SaturationSum(window)
    IN  sum[1] < params.meanSaturationThreshold * sum[2] * Cardinality(window)

(* C21 - pass 1 classification.  Once pass 1 has run, a pixel is set in    *)
(* the initial mask exactly when it is non-transparent, its value is       *)
(* strictly above brightnessThreshold, its saturation strictly below       *)
(* saturationThreshold and its local mean saturation strictly below        *)
(* meanSaturationThreshold; stats.lowSaturationAreas is the number of true *)
(* entries of the initial mask and stats.candidateArtifacts the number of  *)
(* non-transparent pixels that pass the brightness and saturation tests.   *)
C21_Pass1Classification ==
    Reached("pass2") =>
        /\ \A i \in PixelsOf :
              initialMask[i] = (IsCandidate(i) /\ MeanBelowThreshold(i))
        /\ stats.lowSaturationAreas = Count(initialMask)
        /\ stats.candidateArtifacts
             = Cardinality({ i \in PixelsOf : IsCandidate(i) })

\* pass 1 has marked one candidate and left out another whose neighbourhood
\* is too saturated, on a raster that also has a transparent pixel
C21_Witness ==
    /\ pc = "pass2"
    /\ \E i \in PixelsOf : initialMask[i]
    /\ \E i \in PixelsOf : IsCandidate(i) /\ ~initialMask[i]
    /\ \E i \in PixelsOf : Src(i).a = 0

\* pixel i is marked in the manual whitelist mask handed to processImage
Whitelisted(i) == i \in DOMAIN ManualMask /\ ManualMask[i]

(* C22 - cleaned output frame.  Once processImage has finished, a pixel    *)
(* that is in the opened mask and not in the manual whitelist mask has     *)
(* RGBA (0,0,0,0) in the cleaned raster and every other pixel equals the   *)
(* source pixel; the visualization has the source alpha everywhere and the *)
(* source RGB at every pixel that was not coloured red, blue or green.     *)
C22_CleanedOutputFrame ==
    Done =>
        \A i \in PixelsOf :
            /\ result[i] = IF openedMask[i] /\ ~Whitelisted(i)
                              THEN Rgba(0, 0, 0, 0) ELSE Src(i)
            /\ visualization[i].a = Src(i).a
            /\ painted[i] = {} => visualization[i] = Src(i)

(* C23 - read-only inputs during the run.  No step of processImage changes *)
(* the input raster; from the end of the black-pixel pass on the black     *)
(* mask holds exactly the non-transparent pixels under both black          *)
(* thresholds and no later step changes it; and the final mask pass 2      *)
(* builds leaves out exactly the initial-mask pixels near a pixel of that  *)
(* black mask.                                                             *)
C23_ReadOnlyInputs ==
    /\ [][imageData' = imageData]_vars
    /\ [][Reached("pass1") => blackPixelsMask' = blackPixelsMask]_vars
    /\ [](Reached("pass1") =>
            blackPixelsMask = [ i \in PixelsOf |->
                                  Src(i).a # 0 /\ IsBlack(hsvValues[i], params) ])
    /\ [](Reached("open") =>
            finalMask = [ i \in PixelsOf |-> initialMask[i] /\ ~NearBlack(i) ])

\* pass 2 has run and dropped a pixel of the initial mask next to a black one
C23_Witness ==
    /\ pc = "open"
    /\ \E b \in PixelsOf : blackPixelsMask[b]
    /\ \E i \in PixelsOf : initialMask[i] /\ ~finalMask[i]
    /\ \E i \in PixelsOf : finalMask[i]

(* C25 - black ink is never erased.  For every structuring element size    *)
(* from 0 up, also under thresholds that make a pixel both black and an    *)
(* artifact candidate, a pixel that is true in the black-pixel mask is     *)
(* never true in the final mask or in the opened mask, and in the cleaned  *)
(* output it is the opaque source pixel.                                   *)
C25_BlackInkKept ==
    \A i \in PixelsOf :
        (Reached("pass1") /\ blackPixelsMask[i]) =>
            /\ Reached("open") => ~finalMask[i]
            /\ Reached("apply") => ~openedMask[i]
            /\ Done => result[i] = Src(i) /\ result[i].a # 0

\* a finished run with structuring element size 0 in which a pixel is both
\* black and in the initial mask, and other pixels have been erased
C25_Witness ==
    /\ Done
    /\ params.structuringElementSize = 0
    /\ \E i \in PixelsOf : blackPixelsMask[i] /\ initialMask[i]
    /\ \E i \in PixelsOf : MadeTransparent(i)

(* C26 - pass 2 partitions the initial mask.  Once processImage has        *)
(* finished, stats.lowSaturationAreas equals stats.nearBlackPixels plus    *)
(* stats.replacedPixels, the two counters being the numbers of             *)
(* initial-mask pixels outside and inside the final mask, and the number   *)
(* of pixels the run made transparent is at most stats.replacedPixels.     *)
C26_Pass2Partition ==
    Done =>
        /\ stats.lowSaturationAreas = stats.nearBlackPixels + stats.replacedPixels
        /\ stats.nearBlackPixels
             = Cardinality({ i \in PixelsOf : initialMask[i] /\ ~finalMask[i] })
        /\ stats.replacedPixels
             = Cardinality({ i \in PixelsOf : initialMask[i] /\ finalMask[i] })
        /\ Cardinality({ i \in PixelsOf : MadeTransparent(i) })
             <= stats.replacedPixels

\* a finished run with a near-black pixel and a pending replacement that the
\* opening dropped, so that fewer pixels were erased than were counted
C26_Witness ==
    /\ Done
    /\ stats.nearBlackPixels > 0
    /\ stats.replacedPixels > 0
    /\ Cardinality({ i \in PixelsOf : MadeTransparent(i) }) < stats.replacedPixels

----------------------------------------------------------------------------
(* C29 - the processing flag tracks the work in flight.  In every          *)
(* reachable state of the App at most one invocation of processImage is in *)
(* flight, and isProcessing is true whenever one is.                       *)
C29_FlagTracksInFlight ==
    /\ Len(inFlight) <= 1
    /\ inFlight # << >> => isProcessing

----------------------------------------------------------------------------
(* The history of the image display *)

\* the snapshots of the list before the step are all still in the list, at
\* their places, after it
HistoryExtended ==
    /\ Len(history') >= Len(history)
    /\ \A k \in 1 .. Len(history) : history'[k] = history[k]

\* the step is not the (re)initialisation of the mask for a loaded image
HandlerStep == imageDimensions' = imageDimensions

\* C24 as stated: stroke completion, clear, undo and redo never remove or
\* alter a snapshot already in the list; they only append a snapshot or move
\* the cursor
C24_AppendOnly == [][HandlerStep => HistoryExtended]_vars

\* C24, amended: undo and redo leave the list as it is and only move the
\* cursor; stroke completion and clear never alter a snapshot at or before
\* the cursor, they drop the snapshots after the cursor, append one snapshot
\* and move the cursor to it
C24_KeptUpToCursor ==
    [][ HandlerStep =>
          /\ lastOp'.op \in {"undo", "redo"} => history' = history
          /\ \/ history' = history
             \/ /\ Len(history') = historyIndex + 2
                /\ \A k \in 1 .. (historyIndex + 1) : history'[k] = history[k]
                /\ historyIndex' = historyIndex + 1 ]_vars

\* a finished stroke was saved while snapshots stood after the cursor, and
\* the list now ends with the new snapshot right after the old cursor
C24_Witness ==
    /\ lastOp.op = "up"
    /\ lastOp.ok
    /\ lastOp.index >= 0
    /\ lastOp.size > lastOp.index + 1
    /\ Len(history) = lastOp.index + 2
    /\ historyIndex = lastOp.index + 1
    /\ history[Len(history)] = displayMask

\* the mask has been initialised for the loaded image
MaskInitialised == imageDimensions.width > 0 /\ imageDimensions.height > 0

\* C27: once the mask is initialised, whenever no stroke is in progress and
\* no unsaved change is pending, historyIndex is a valid index of history and
\* the current mask of the component equals history[historyIndex]
C27_CursorInvariant ==
    (MaskInitialised /\ ~isDrawing /\ ~hasUnsavedChanges) =>
        /\ 0 <= historyIndex
        /\ historyIndex <= Len(history) - 1
        /\ displayMask = history[historyIndex + 1]

\* the step runs a handler of a user event
UserStep == events' = events + 1

\* C28: when not drawing and not processing, an undo that succeeds followed
\* immediately by a redo restores the mask and the historyIndex found before
\* the undo and reports that mask to the parent; an undo at historyIndex 0
\* and a redo at the last index change nothing and report nothing
C28_UndoRedoRoundTrip ==
    [][ /\ (UserStep /\ lastOp.op = "undo" /\ lastOp.ok /\ lastOp'.op = "redo") =>
            /\ lastOp'.ok
            /\ displayMask' = lastOp.mask
            /\ historyIndex' = lastOp.index
            /\ manualWhitelistMask' = << lastOp.mask >>
            /\ reports' = reports + 1
        /\ (UserStep /\ lastOp'.op = "undo" /\ historyIndex = 0) =>
            UNCHANGED <<displayMask, history, historyIndex,
                        manualWhitelistMask, debounceTimeout, reports>>
        /\ (UserStep /\ lastOp'.op = "redo"
                     /\ historyIndex = Len(history) - 1) =>
            UNCHANGED <<displayMask, history, historyIndex,
                        manualWhitelistMask, debounceTimeout, reports>> ]_vars

\* cell of the mask at image position (x, y)
MaskCell(x, y) == y * imageDimensions.width + x

\* the sample points of the segment between two positions, rounded as the
\* brush rounds its centre
SegmentSamples(from, to) ==
    LET points == StrokePoints(from[1], from[2], to[1], to[2],
                               whitelistBrushSize)
    IN  { << Round(from[1] * points + (to[1] - from[1]) * i, points),
             Round(from[2] * points + (to[2] - from[2]) * i, points) >> :
          i \in 0 .. points }

\* C30: a mouse move of an active stroke stamps the brush at the sample
\* points of the segment from the previous mouse position to the current
\* one, so the segment is covered and not only its end point
C30_SegmentCovered ==
    ( /\ lastOp.op = "move"
      /\ lastOp.ok
      /\ lastOp.from # << >>
      /\ MaskInitialised ) =>
        \A p \in SegmentSamples(lastOp.from, lastOp.to) :
            displayMask[MaskCell(p[1], p[2])]

====
